---- MODULE Spec2Model ----
(***************************************************************************)
(* Payment gateway of main.go: every accepted payment runs processPayment  *)
(* in its own goroutine.  The goroutines share the health cache (a map     *)
(* guarded by healthCacheMux) and the Redis summary counters.              *)
(*                                                                         *)
(* Time is counted in whole seconds.  time.Time{} is second 0 and the      *)
(* process starts more than one staleness window later, so the zero        *)
(* timestamp is stale at every instant of a run, as in the program.        *)
(* Amounts are whole units (the float64 amounts of the program are         *)
(* modelled by integers, rounding is not modelled); payment t carries the  *)
(* amount t, so that a total tells which payments it counts.               *)
(***************************************************************************)
EXTENDS Integers, Sequences, FiniteSets

\* ---- bounds of the model ------------------------------------------------
NumTasks == 2
NumCallers == 3
Horizon == 6

\* ---- constants of the program -------------------------------------------
StaleWindow == 5
maxRetries == 3
ZeroTime == 0
DefaultInitMRT == 100
FallbackInitMRT == 200
ErrMRT == 1000

Procs == {"default", "fallback"}
Tasks == 1..NumTasks
Callers == 1..NumCallers
Payments == Tasks \cup Callers
StartTime == StaleWindow + 1
MaxTime == StartTime + Horizon
RespTimes == {FallbackInitMRT + 100}

HealthCheckCache(f, m, at) ==
    [Failing |-> f, MinResponseTime |-> m, LastCheckedAt |-> at]

HealthCheckResponse(f, m) == [Failing |-> f, MinResponseTime |-> m]

\* the nil *HealthCheckCache (a key the map does not hold)
NilCache == [Failing |-> FALSE, MinResponseTime |-> -1, LastCheckedAt |-> ZeroTime]
NilResp == [Failing |-> FALSE, MinResponseTime |-> -1]

VARIABLES
    now,          \* the wall clock, in seconds
    redisClient,  \* TRUE: connected client; FALSE: nil (no-store mode)
    healthCache,  \* processor -> *HealthCheckCache
    readers,      \* goroutines holding healthCacheMux.RLock
    writer,       \* goroutine holding healthCacheMux.Lock, or 0
    store,        \* Redis: processor -> hash summary:<processor>
    storeFailed,  \* some Redis command returned an error
    pc,           \* where each payment's goroutine is
    amount,       \* req.Amount
    processor,    \* processPayment's variable processor
    site,         \* call site of the running sendToProcessor: 1 (line 168), 2 (line 173)
    cached,       \* getHealthCheck's variable cached
    probeRes,     \* which branch updateHealthCheck took
    healthResp,   \* updateHealthCheck's decoded healthResp
    wroteAt,      \* the LastCheckedAt this goroutine's updateHealthCheck stored
    attempt,      \* sendToProcessor's loop variable
    success,      \* processPayment's variable success
    wakeAt,       \* end of the running time.Sleep
    sendCalls,    \* history: the sendToProcessor calls of the payment
    posts,        \* history: POSTs issued by the running sendToProcessor call
    callLog,      \* history: failure kinds met and waits made by the running call
    probes,       \* history: health probes issued for the payment
    recordCalls,  \* history: updateSummaryCounters calls of the payment
    errSeen,      \* history: the LastCheckedAt of the transport-failure entry the
                  \* cache held when the payment's select call was made, or 0
    response,     \* the HTTP status handlePayments wrote for the request, or 0
    logLines,     \* history: log.Printf calls, counted by source line
    sumPc,        \* where the GET /payments-summary request is
    sumProc,      \* getProcessorSummary's parameter processor
    totalRequestsStr, \* getProcessorSummary's variable totalRequestsStr
    summary       \* handlePaymentsSummary's variable summary

vars == <<now, redisClient, healthCache, readers, writer, store, storeFailed,
          pc, amount, processor, site, cached, probeRes, healthResp, wroteAt,
          attempt, success, wakeAt, sendCalls, posts, callLog, probes, recordCalls,
          errSeen, response, logLines, sumPc, sumProc, totalRequestsStr, summary>>

summaryVars == <<sumPc, sumProc, totalRequestsStr, summary>>
otherVars == <<redisClient, summaryVars>>
reqVars == <<amount, response>>
recVars == <<recordCalls, logLines>>
cacheVars == <<healthCache, readers, writer>>
storeVars == <<store, storeFailed>>
getVars == <<cached, probeRes, healthResp, wroteAt, probes, errSeen>>
sendVars == <<processor, site, attempt, success, wakeAt, sendCalls, posts, callLog>>

\* ---- pure functions -----------------------------------------------------

\* time.Since(t), in seconds
Since(t) == now - t

\* Stale with the window counted from its first second
StaleAtWindow(c) == c = NilCache \/ Since(c.LastCheckedAt) >= StaleWindow

\* the test of getHealthCheck, line 206
Stale(c) == c = NilCache \/ Since(c.LastCheckedAt) > StaleWindow

\* selectBestProcessor with the latency as a tie-break
selectFasterProcessor(defaultHealth) ==
    IF ~defaultHealth.Failing /\ defaultHealth.MinResponseTime <= FallbackInitMRT
    THEN "default" ELSE "fallback"

\* selectBestProcessor, given the snapshot getHealthCheck("default") returned
selectBestProcessor(defaultHealth) ==
    IF ~defaultHealth.Failing THEN "default" ELSE "fallback"

\* HealthTarget naming the secondary
HealthTargetSecondary == "fallback"

\* the processor selectBestProcessor passes to getHealthCheck (line 189)
HealthTarget == "default"

\* time.Duration(1<<attempt) * time.Second
Backoff(a) == 2 ^ a

\* a hash field is <<>> when absent and <<v>> when set
HIncrBy(field, n) == IF field = <<>> THEN <<n>> ELSE <<field[1] + n>>

\* ProbedEntry that leaves an unreachable processor marked healthy
ProbedEntryOptimistic(res, resp, t) ==
    IF res = "err"
    THEN HealthCheckCache(FALSE, ErrMRT, t)
    ELSE HealthCheckCache(resp.Failing, resp.MinResponseTime, t)

\* ProbedEntry whose transport-failure entry leaves LastCheckedAt unset
ProbedEntryErrUnstamped(res, resp, t) ==
    IF res = "err"
    THEN HealthCheckCache(TRUE, ErrMRT, ZeroTime)
    ELSE HealthCheckCache(resp.Failing, resp.MinResponseTime, t)

\* the entry updateHealthCheck stores, by branch
ProbedEntry(res, resp, t) ==
    IF res = "err"
    THEN HealthCheckCache(TRUE, ErrMRT, t)
    ELSE HealthCheckCache(resp.Failing, resp.MinResponseTime, t)

\* the entry a transport failure of the probe leaves (lines 229-233)
IsErrEntry(c) == c.Failing /\ c.MinResponseTime = ErrMRT

Last(s) == s[Len(s)]

\* req.Amount of payment t
AmountOf(t) == t

\* nothing written to the gin.Context yet
NoResponse == [status |-> 0, message |-> ""]

\* c.JSON(http.StatusOK, PaymentResponse{Message: "payment received"})
Received == [status |-> 200, message |-> "payment received"]

\* c.JSON(http.StatusBadRequest, gin.H{"error": ...})
BadRequest == [status |-> 400, message |-> "error"]

ProcessorSummary(n, a) == [TotalRequests |-> n, TotalAmount |-> a]

\* no PaymentSummaryResponse built yet
NoSummary == [p \in Procs |-> ProcessorSummary(-1, -1)]

NoLog == [kinds |-> {}, fails |-> 0, waits |-> <<>>]

SetLast(s, f, v) == [s EXCEPT ![Len(s)] = [@ EXCEPT ![f] = v]]

\* ---- initial state: main() up to r.Run ----------------------------------

Init ==
    /\ now = StartTime
    /\ redisClient \in BOOLEAN
    /\ healthCache = [p \in Procs |->
          IF p = "default"
          THEN HealthCheckCache(FALSE, DefaultInitMRT, ZeroTime)
          ELSE HealthCheckCache(FALSE, FallbackInitMRT, ZeroTime)]
    /\ readers = {}
    /\ writer = 0
    /\ store = [p \in Procs |-> [totalRequests |-> <<>>, totalAmount |-> <<>>]]
    /\ storeFailed = FALSE
    /\ pc = [t \in Payments |-> "idle"]
    /\ amount = [t \in Payments |-> 0]
    /\ processor = [t \in Payments |-> "none"]
    /\ site = [t \in Payments |-> 0]
    /\ cached = [t \in Payments |-> NilCache]
    /\ probeRes = [t \in Payments |-> "none"]
    /\ healthResp = [t \in Payments |-> NilResp]
    /\ wroteAt = [t \in Payments |-> ZeroTime]
    /\ attempt = [t \in Payments |-> 0]
    /\ success = [t \in Payments |-> FALSE]
    /\ wakeAt = [t \in Payments |-> 0]
    /\ sendCalls = [t \in Payments |-> <<>>]
    /\ posts = [t \in Payments |-> 0]
    /\ callLog = [t \in Payments |-> NoLog]
    /\ probes = [t \in Payments |-> 0]
    /\ recordCalls = [t \in Payments |-> 0]
    /\ errSeen = [t \in Payments |-> 0]
    /\ response = [t \in Payments |-> NoResponse]
    /\ logLines = [unavailable |-> IF redisClient THEN 0 ELSE 1, inMemory |-> 0]
    /\ sumPc = "idle"
    /\ sumProc = "none"
    /\ totalRequestsStr = <<>>
    /\ summary = NoSummary

\* ---- handlePayments -----------------------------------------------------

\* handlePayments that starts the pipeline before it answers
handlePaymentsDispatchFirst(t) ==
    /\ pc[t] = "idle"
    /\ \E bindOk \in BOOLEAN, uuidOk \in BOOLEAN :
          IF bindOk /\ uuidOk
          THEN /\ pc' = [pc EXCEPT ![t] = "select"]
               /\ amount' = [amount EXCEPT ![t] = AmountOf(t)]
               /\ UNCHANGED response
          ELSE /\ pc' = [pc EXCEPT ![t] = "rejected"]
               /\ response' = [response EXCEPT ![t] = BadRequest]
               /\ UNCHANGED amount
    /\ UNCHANGED <<now, otherVars, cacheVars, storeVars, getVars, sendVars, recVars>>

\* POST /payments, lines 137-150: a request that fails binding or uuid.Parse
\* is answered 400 and the handler returns; another is answered 200
handlePayments(t) ==
    /\ pc[t] = "idle"
    /\ \E bindOk \in BOOLEAN, uuidOk \in BOOLEAN :
          IF bindOk /\ uuidOk
          THEN /\ pc' = [pc EXCEPT ![t] = "acked"]
               /\ response' = [response EXCEPT ![t] = Received]
               /\ amount' = [amount EXCEPT ![t] = AmountOf(t)]
          ELSE /\ pc' = [pc EXCEPT ![t] = "rejected"]
               /\ response' = [response EXCEPT ![t] = BadRequest]
               /\ UNCHANGED amount
    /\ UNCHANGED <<now, otherVars, cacheVars, storeVars, getVars, sendVars, recVars>>

\* line 153: go processPayment(req) starts the goroutine of the payment, which
\* calls selectBestProcessor (line 158)
processPayment(t) ==
    /\ pc[t] = "acked"
    /\ pc' = [pc EXCEPT ![t] = "select"]
    /\ errSeen' = [errSeen EXCEPT ![t] =
          IF IsErrEntry(healthCache["default"])
          THEN healthCache["default"].LastCheckedAt ELSE 0]
    /\ UNCHANGED <<now, otherVars, cacheVars, storeVars, reqVars, cached, probeRes,
                   healthResp, wroteAt, probes, sendVars, recVars>>

\* ---- sendToProcessor: the call and its first POST -----------------------

\* state after sendToProcessor(target, ppReq) was called from call site s and
\* issued the POST of attempt 0
CallSend(t, s, target) ==
    /\ site' = [site EXCEPT ![t] = s]
    /\ attempt' = [attempt EXCEPT ![t] = 0]
    /\ sendCalls' = [sendCalls EXCEPT ![t] =
          Append(@, [proc |-> target, res |-> "pending"])]
    /\ posts' = [posts EXCEPT ![t] = 1]
    /\ callLog' = [callLog EXCEPT ![t] = NoLog]
    /\ pc' = [pc EXCEPT ![t] = "post"]

\* getHealthCheck returns snap to selectBestProcessor, whose result
\* processPayment passes to sendToProcessor (lines 158-168)
ReturnHealth(t, snap) ==
    /\ processor' = [processor EXCEPT ![t] = selectBestProcessor(snap)]
    /\ CallSend(t, 1, selectBestProcessor(snap))
    /\ cached' = [cached EXCEPT ![t] = NilCache]
    /\ probeRes' = [probeRes EXCEPT ![t] = "none"]
    /\ healthResp' = [healthResp EXCEPT ![t] = NilResp]
    /\ wroteAt' = [wroteAt EXCEPT ![t] = ZeroTime]
    /\ errSeen' = [errSeen EXCEPT ![t] = 0]
    /\ UNCHANGED <<success, wakeAt>>

\* ---- getHealthCheck(HealthTarget) ------------------------------------------

\* line 201: healthCacheMux.RLock()
GetRLock(t) ==
    /\ pc[t] = "select"
    /\ writer = 0
    /\ readers' = readers \cup {t}
    /\ pc' = [pc EXCEPT ![t] = "read1"]
    /\ UNCHANGED <<now, otherVars, healthCache, writer, storeVars, reqVars,
                   getVars, sendVars, recVars>>

\* GetRead that keeps the read lock until getHealthCheck returns
GetReadKeepsLock(t) ==
    /\ pc[t] = "read1"
    /\ cached' = [cached EXCEPT ![t] = healthCache[HealthTarget]]
    /\ UNCHANGED readers
    /\ pc' = [pc EXCEPT ![t] = "check"]
    /\ UNCHANGED <<now, otherVars, healthCache, writer, storeVars, reqVars,
                   probeRes, healthResp, wroteAt, probes, errSeen, sendVars,
                   recVars>>

\* lines 202-203: cached := healthCache[processor]; RUnlock()
GetRead(t) ==
    /\ pc[t] = "read1"
    /\ cached' = [cached EXCEPT ![t] = healthCache[HealthTarget]]
    /\ readers' = readers \ {t}
    /\ pc' = [pc EXCEPT ![t] = "check"]
    /\ UNCHANGED <<now, otherVars, healthCache, writer, storeVars, reqVars,
                   probeRes, healthResp, wroteAt, probes, errSeen, sendVars,
                   recVars>>

\* line 206: a stale entry makes updateHealthCheck issue httpClient.Get
\* (line 224); a fresh one is returned (line 213)
GetCheck(t) ==
    /\ pc[t] = "check"
    /\ IF Stale(cached[t])
       THEN /\ pc' = [pc EXCEPT ![t] = "probe"]
            /\ probes' = [probes EXCEPT ![t] = @ + 1]
            /\ UNCHANGED <<cached, probeRes, healthResp, wroteAt, errSeen, sendVars>>
       ELSE /\ ReturnHealth(t, cached[t])
            /\ UNCHANGED probes
    /\ UNCHANGED <<now, otherVars, cacheVars, storeVars, reqVars, recVars>>

\* ---- updateHealthCheck(HealthTarget) ---------------------------------------

\* ProbeResponse that takes HTTP 429 and an undecodable body on to the write
ProbeResponseWrites429(t) ==
    /\ pc[t] = "probe"
    /\ \/ /\ \E r \in {"err", "429", "undecodable"} :
                probeRes' = [probeRes EXCEPT ![t] = r]
          /\ UNCHANGED healthResp
       \/ /\ \E f \in BOOLEAN, m \in RespTimes :
                healthResp' = [healthResp EXCEPT ![t] = HealthCheckResponse(f, m)]
          /\ probeRes' = [probeRes EXCEPT ![t] = "ok"]
    /\ pc' = [pc EXCEPT ![t] = "wlock"]
    /\ UNCHANGED <<now, otherVars, cacheVars, storeVars, reqVars, cached,
                   wroteAt, probes, errSeen, sendVars, recVars>>

\* lines 224-249: the answer to the probe.  A transport error and a decoded
\* body go on to write the cache; HTTP 429 and an undecodable body return.
ProbeResponse(t) ==
    /\ pc[t] = "probe"
    /\ \/ /\ probeRes' = [probeRes EXCEPT ![t] = "err"]
          /\ pc' = [pc EXCEPT ![t] = "wlock"]
          /\ UNCHANGED healthResp
       \/ /\ \E r \in {"429", "undecodable"} :
                probeRes' = [probeRes EXCEPT ![t] = r]
          /\ pc' = [pc EXCEPT ![t] = "rlock2"]
          /\ UNCHANGED healthResp
       \/ /\ \E f \in BOOLEAN, m \in RespTimes :
                healthResp' = [healthResp EXCEPT ![t] = HealthCheckResponse(f, m)]
          /\ probeRes' = [probeRes EXCEPT ![t] = "ok"]
          /\ pc' = [pc EXCEPT ![t] = "wlock"]
    /\ UNCHANGED <<now, otherVars, cacheVars, storeVars, reqVars, cached,
                   wroteAt, probes, errSeen, sendVars, recVars>>

\* UpdateLock that does not wait for the readers to leave
UpdateLockIgnoresReaders(t) ==
    /\ pc[t] = "wlock"
    /\ writer = 0
    /\ writer' = t
    /\ pc' = [pc EXCEPT ![t] = "write"]
    /\ UNCHANGED <<now, otherVars, healthCache, readers, storeVars, reqVars,
                   getVars, sendVars, recVars>>

\* lines 228, 251: healthCacheMux.Lock()
UpdateLock(t) ==
    /\ pc[t] = "wlock"
    /\ writer = 0
    /\ readers = {}
    /\ writer' = t
    /\ pc' = [pc EXCEPT ![t] = "write"]
    /\ UNCHANGED <<now, otherVars, healthCache, readers, storeVars, reqVars,
                   getVars, sendVars, recVars>>

\* UpdateWrite that keeps the timestamp of the entry it replaces
UpdateWriteKeepsStamp(t) ==
    /\ pc[t] = "write"
    /\ healthCache' = [healthCache EXCEPT
          ![HealthTarget] = ProbedEntry(probeRes[t], healthResp[t],
                                     healthCache[HealthTarget].LastCheckedAt)]
    /\ wroteAt' = [wroteAt EXCEPT ![t] = now]
    /\ writer' = 0
    /\ pc' = [pc EXCEPT ![t] = "rlock2"]
    /\ UNCHANGED <<now, otherVars, readers, storeVars, reqVars, cached,
                   probeRes, healthResp, probes, errSeen, sendVars, recVars>>

\* UpdateWrite that returns without healthCacheMux.Unlock()
UpdateWriteNoUnlock(t) ==
    /\ pc[t] = "write"
    /\ healthCache' = [healthCache EXCEPT
          ![HealthTarget] = ProbedEntry(probeRes[t], healthResp[t], now)]
    /\ wroteAt' = [wroteAt EXCEPT ![t] = now]
    /\ UNCHANGED writer
    /\ pc' = [pc EXCEPT ![t] = "rlock2"]
    /\ UNCHANGED <<now, otherVars, readers, storeVars, reqVars, cached,
                   probeRes, healthResp, probes, errSeen, sendVars, recVars>>

\* lines 229-234, 252-257: store the entry stamped time.Now(); Unlock()
UpdateWrite(t) ==
    /\ pc[t] = "write"
    /\ healthCache' = [healthCache EXCEPT
          ![HealthTarget] = ProbedEntry(probeRes[t], healthResp[t], now)]
    /\ wroteAt' = [wroteAt EXCEPT ![t] = now]
    /\ writer' = 0
    /\ pc' = [pc EXCEPT ![t] = "rlock2"]
    /\ UNCHANGED <<now, otherVars, readers, storeVars, reqVars, cached,
                   probeRes, healthResp, probes, errSeen, sendVars, recVars>>

\* line 208: healthCacheMux.RLock()
GetRLock2(t) ==
    /\ pc[t] = "rlock2"
    /\ writer = 0
    /\ readers' = readers \cup {t}
    /\ pc' = [pc EXCEPT ![t] = "read2"]
    /\ UNCHANGED <<now, otherVars, healthCache, writer, storeVars, reqVars,
                   getVars, sendVars, recVars>>

\* GetRead2 that probes again for as long as the entry it re-reads is stale
GetRead2Retry(t) ==
    /\ pc[t] = "read2"
    /\ readers' = readers \ {t}
    /\ IF Stale(healthCache[HealthTarget])
       THEN /\ pc' = [pc EXCEPT ![t] = "probe"]
            /\ probes' = [probes EXCEPT ![t] = @ + 1]
            /\ UNCHANGED <<cached, probeRes, healthResp, wroteAt, errSeen, sendVars>>
       ELSE /\ ReturnHealth(t, healthCache[HealthTarget])
            /\ UNCHANGED probes
    /\ UNCHANGED <<now, otherVars, healthCache, writer, storeVars, reqVars, recVars>>

\* lines 209-213: cached = healthCache[processor]; RUnlock(); return cached
GetRead2(t) ==
    /\ pc[t] = "read2"
    /\ readers' = readers \ {t}
    /\ ReturnHealth(t, healthCache[HealthTarget])
    /\ UNCHANGED <<now, otherVars, healthCache, writer, storeVars, reqVars,
                   probes, recVars>>

\* ---- sendToProcessor: the retry loop -----------------------------------

\* LoopCond that allows one more attempt
LoopCondOneMore(a) == a < maxRetries + 1

\* line 279: the loop condition
LoopCond(a) == a < maxRetries

\* RetryCond that also sleeps after the last attempt
RetryCondAlways(a) == a < maxRetries

\* lines 283, 296: the condition of the backoff sleep
RetryCond(a) == a < maxRetries - 1

\* the wait sendToProcessor makes after an attempt that ended in outcome r
\* (lines 283-284, 296-297)
WaitAfter(r, a) ==
    IF r # "2xx" /\ RetryCond(a) THEN Backoff(a) ELSE 0

\* sendToProcessor returns b to its call site
ReturnSend(t, b) ==
    /\ success' = [success EXCEPT ![t] = b]
    /\ sendCalls' = [sendCalls EXCEPT ![t] =
          SetLast(@, "res", IF b THEN "true" ELSE "false")]
    /\ attempt' = [attempt EXCEPT ![t] = 0]
    /\ pc' = [pc EXCEPT ![t] = IF site[t] = 1 THEN "sent1" ELSE "sent2"]
    /\ UNCHANGED posts

\* line 279: attempt++, then the next POST (line 280) or the end of the loop
\* (line 301)
NextAttempt(t) ==
    IF LoopCond(attempt[t] + 1)
    THEN /\ attempt' = [attempt EXCEPT ![t] = @ + 1]
         /\ posts' = [posts EXCEPT ![t] = @ + 1]
         /\ pc' = [pc EXCEPT ![t] = "post"]
         /\ UNCHANGED <<success, sendCalls>>
    ELSE ReturnSend(t, FALSE)

\* the history of the running call after an attempt that ended in outcome r
Logged(log, r, a) ==
    [kinds |-> IF r = "2xx" THEN log.kinds ELSE log.kinds \cup {r},
     fails |-> IF r = "2xx" THEN log.fails ELSE log.fails + 1,
     waits |-> IF WaitAfter(r, a) > 0
               THEN Append(log.waits, WaitAfter(r, a))
               ELSE log.waits]

\* lines 280-298: the answer to the POST of the running attempt: a status in
\* [200, 300) returns true; a transport error or another status sleeps and
\* retries, or ends the call after the last attempt
PostResponse(t) ==
    /\ pc[t] = "post"
    /\ \E r \in {"2xx", "non2xx", "err"} :
          /\ callLog' = [callLog EXCEPT ![t] = Logged(@, r, attempt[t])]
          /\ IF r = "2xx"
             THEN ReturnSend(t, TRUE) /\ UNCHANGED wakeAt
             ELSE IF RetryCond(attempt[t])
                  THEN /\ wakeAt' = [wakeAt EXCEPT ![t] = now + WaitAfter(r, attempt[t])]
                       /\ pc' = [pc EXCEPT ![t] = "sleep"]
                       /\ UNCHANGED <<success, sendCalls, attempt, posts>>
                  ELSE IF r = "err"
                       THEN ReturnSend(t, FALSE) /\ UNCHANGED wakeAt
                       ELSE NextAttempt(t) /\ UNCHANGED wakeAt
    /\ UNCHANGED <<now, otherVars, cacheVars, storeVars, reqVars, getVars,
                   processor, site, recVars>>

\* time.Sleep returns no earlier than its duration; then the loop goes on
\* (lines 285, 279)
SleepDone(t) ==
    /\ pc[t] = "sleep"
    /\ now >= wakeAt[t]
    /\ wakeAt' = [wakeAt EXCEPT ![t] = 0]
    /\ NextAttempt(t)
    /\ UNCHANGED <<now, otherVars, cacheVars, storeVars, reqVars, getVars,
                   processor, site, callLog, recVars>>

\* ---- processPayment after a sendToProcessor call ------------------------

\* Finish that records whatever the outcome
FinishRecordsAlways(t, ok) ==
    /\ callLog' = [callLog EXCEPT ![t] = NoLog]
    /\ posts' = [posts EXCEPT ![t] = 0]
    /\ recordCalls' = [recordCalls EXCEPT ![t] = @ + 1]
    /\ logLines' = [logLines EXCEPT !.inMemory = IF ~redisClient THEN @ + 1 ELSE @]
    /\ pc' = [pc EXCEPT ![t] = IF redisClient THEN "rec1" ELSE "done"]
    /\ UNCHANGED <<site, attempt, success, wakeAt, sendCalls>>

\* lines 180-185: a delivered payment calls updateSummaryCounters(p, amount),
\* which pipelines two increments when redisClient is set and otherwise only
\* logs (line 319); a failed payment is logged and dropped
Finish(t, ok) ==
    /\ callLog' = [callLog EXCEPT ![t] = NoLog]
    /\ posts' = [posts EXCEPT ![t] = 0]
    /\ recordCalls' = [recordCalls EXCEPT ![t] = IF ok THEN @ + 1 ELSE @]
    /\ logLines' = [logLines EXCEPT !.inMemory = IF ok /\ ~redisClient THEN @ + 1 ELSE @]
    /\ pc' = [pc EXCEPT ![t] = IF ok /\ redisClient THEN "rec1" ELSE "done"]
    /\ UNCHANGED <<site, attempt, success, wakeAt, sendCalls>>

\* AfterSend that fails over whichever processor was selected
AfterSendAnyProcessor(t) ==
    /\ pc[t] = "sent1"
    /\ IF ~success[t]
       THEN /\ CallSend(t, 2, "fallback")
            /\ UNCHANGED <<success, wakeAt, recVars>>
       ELSE Finish(t, success[t])
    /\ UNCHANGED <<now, otherVars, cacheVars, storeVars, reqVars, getVars, processor>>

\* lines 171-173, 180: after the first sendToProcessor call
AfterSend(t) ==
    /\ pc[t] = "sent1"
    /\ IF ~success[t] /\ processor[t] = "default"
       THEN /\ CallSend(t, 2, "fallback")
            /\ UNCHANGED <<success, wakeAt, recVars>>
       ELSE Finish(t, success[t])
    /\ UNCHANGED <<now, otherVars, cacheVars, storeVars, reqVars, getVars, processor>>

\* AfterFailover that leaves processor as selected
AfterFailoverKeepsProcessor(t) ==
    /\ pc[t] = "sent2"
    /\ UNCHANGED processor
    /\ Finish(t, success[t])
    /\ UNCHANGED <<now, otherVars, cacheVars, storeVars, reqVars, getVars>>

\* lines 174-176, 180: after the failover call
AfterFailover(t) ==
    /\ pc[t] = "sent2"
    /\ processor' = [processor EXCEPT ![t] = IF success[t] THEN "fallback" ELSE @]
    /\ Finish(t, success[t])
    /\ UNCHANGED <<now, otherVars, cacheVars, storeVars, reqVars, getVars>>

\* ---- updateSummaryCounters with a Redis client --------------------------

\* line 311 as Redis executes it: HINCRBY summary:<processor> totalRequests 1,
\* or the pipeline fails before it
ExecIncrRequests(t) ==
    /\ pc[t] = "rec1"
    /\ \/ /\ store' = [store EXCEPT ![processor[t]].totalRequests = HIncrBy(@, 1)]
          /\ pc' = [pc EXCEPT ![t] = "rec2"]
          /\ UNCHANGED storeFailed
       \/ /\ storeFailed' = TRUE
          /\ pc' = [pc EXCEPT ![t] = "done"]
          /\ UNCHANGED store
    /\ UNCHANGED <<now, otherVars, cacheVars, reqVars, getVars, sendVars, recVars>>

\* line 312 as Redis executes it: HINCRBYFLOAT summary:<processor> totalAmount
\* amount, or the pipeline fails before it
ExecIncrAmount(t) ==
    /\ pc[t] = "rec2"
    /\ \/ /\ store' = [store EXCEPT ![processor[t]].totalAmount = HIncrBy(@, amount[t])]
          /\ UNCHANGED storeFailed
       \/ /\ storeFailed' = TRUE
          /\ UNCHANGED store
    /\ pc' = [pc EXCEPT ![t] = "done"]
    /\ UNCHANGED <<now, otherVars, cacheVars, reqVars, getVars, sendVars, recVars>>

\* ---- GET /payments-summary ----------------------------------------------

\* strconv.Atoi and strconv.ParseFloat of the string HGet returned, as lines
\* 352-365 use them: the empty string leaves the zero the variable started with
ParseOrZero(str) == IF str = <<>> THEN 0 ELSE str[1]

\* handlePaymentsSummary that without Redis answers from counters kept in
\* memory
handlePaymentsSummaryInMemory ==
    /\ sumPc \in {"idle", "done"}
    /\ IF redisClient
       THEN /\ sumPc' = "hget1"
            /\ sumProc' = "default"
            /\ summary' = NoSummary
       ELSE /\ sumPc' = "done"
            /\ sumProc' = "none"
            /\ summary' = [p \in Procs |-> ProcessorSummary(
                  Cardinality({t \in Tasks : recordCalls[t] = 1 /\ processor[t] = p}), 0)]
    /\ totalRequestsStr' = <<>>
    /\ UNCHANGED <<now, redisClient, cacheVars, storeVars, pc, reqVars, getVars,
                   sendVars, recVars>>

\* handlePaymentsSummary calls getProcessorSummary("default") (line 329),
\* which without a Redis client returns zeros (lines 373-377), for both
\* processors
handlePaymentsSummary ==
    /\ sumPc \in {"idle", "done"}
    /\ IF redisClient
       THEN /\ sumPc' = "hget1"
            /\ sumProc' = "default"
            /\ summary' = NoSummary
       ELSE /\ sumPc' = "done"
            /\ sumProc' = "none"
            /\ summary' = [p \in Procs |-> ProcessorSummary(0, 0)]
    /\ totalRequestsStr' = <<>>
    /\ UNCHANGED <<now, redisClient, cacheVars, storeVars, pc, reqVars, getVars,
                   sendVars, recVars>>

\* line 342: HGet(ctx, key, "totalRequests"); redis.Nil and any other error
\* leave the empty string
HGetRequests ==
    /\ sumPc = "hget1"
    /\ \/ /\ totalRequestsStr' = store[sumProc].totalRequests
          /\ UNCHANGED storeFailed
       \/ /\ totalRequestsStr' = <<>>
          /\ storeFailed' = TRUE
    /\ sumPc' = "hget2"
    /\ UNCHANGED <<now, redisClient, cacheVars, store, pc, reqVars, getVars,
                   sendVars, recVars, sumProc, summary>>

\* lines 347-371: HGet(ctx, key, "totalAmount"), the two strings parsed and
\* the ProcessorSummary returned; line 330 goes on to "fallback" and line 333
\* answers
HGetAmount ==
    /\ sumPc = "hget2"
    /\ \/ /\ \E totalAmountStr \in {store[sumProc].totalAmount} :
                summary' = [summary EXCEPT ![sumProc] =
                   ProcessorSummary(ParseOrZero(totalRequestsStr),
                                    ParseOrZero(totalAmountStr))]
          /\ UNCHANGED storeFailed
       \/ /\ summary' = [summary EXCEPT ![sumProc] =
                ProcessorSummary(ParseOrZero(totalRequestsStr), ParseOrZero(<<>>))]
          /\ storeFailed' = TRUE
    /\ totalRequestsStr' = <<>>
    /\ IF sumProc = "default"
       THEN sumPc' = "hget1" /\ sumProc' = "fallback"
       ELSE sumPc' = "done" /\ sumProc' = "none"
    /\ UNCHANGED <<now, redisClient, cacheVars, store, pc, reqVars, getVars,
                   sendVars, recVars>>

\* ---- the clock ----------------------------------------------------------

Tick ==
    /\ now < MaxTime
    /\ now' = now + 1
    /\ UNCHANGED <<otherVars, cacheVars, storeVars, pc, reqVars, getVars,
                   sendVars, recVars>>

\* time going on for as long as a time.Sleep has not reached its end,
\* whatever the horizon of the model
TickAsleep ==
    /\ \E t \in Tasks : pc[t] = "sleep" /\ wakeAt[t] > now
    /\ now' = now + 1
    /\ UNCHANGED <<otherVars, cacheVars, storeVars, pc, reqVars, getVars,
                   sendVars, recVars>>

\* the steps of payment t
Step(t) ==
    \/ handlePayments(t)
    \/ processPayment(t)
    \/ GetRLock(t)
    \/ GetRead(t)
    \/ GetCheck(t)
    \/ ProbeResponse(t)
    \/ UpdateLock(t)
    \/ UpdateWrite(t)
    \/ GetRLock2(t)
    \/ GetRead2(t)
    \/ PostResponse(t)
    \/ SleepDone(t)
    \/ AfterSend(t)
    \/ AfterFailover(t)
    \/ ExecIncrRequests(t)
    \/ ExecIncrAmount(t)

Next ==
    \/ Tick
    \/ \E t \in Tasks : Step(t)

\* NumTasks concurrent payments, every answer of the processors and of Redis
Spec == Init /\ [][Next]_vars

\* the steps of payment t when the processor answers its first POST with a
\* 2xx status
CallerStep(t) ==
    \/ handlePayments(t)
    \/ processPayment(t)
    \/ GetRLock(t)
    \/ GetRead(t)
    \/ GetCheck(t)
    \/ ProbeResponse(t)
    \/ UpdateLock(t)
    \/ UpdateWrite(t)
    \/ GetRLock2(t)
    \/ GetRead2(t)
    \/ PostResponse(t) /\ success'[t]
    \/ AfterSend(t)

InitHealth == Init /\ ~redisClient

NextHealth ==
    \/ Tick
    \/ \E t \in Callers : CallerStep(t)

\* the health cache under NumCallers concurrent payments: every answer of the
\* health endpoint, deliveries that succeed at once, no Redis
SpecHealth == InitHealth /\ [][NextHealth]_vars

\* the steps of payment t when the processor answers its first POST with a
\* 2xx status, with the Redis commands of its record
QuickStep(t) ==
    \/ CallerStep(t)
    \/ ExecIncrRequests(t)
    \/ ExecIncrAmount(t)

NextSummary ==
    \/ Tick
    \/ \E t \in Tasks : QuickStep(t)
    \/ handlePaymentsSummary
    \/ HGetRequests
    \/ HGetAmount

\* GET /payments-summary requests, one at a time, concurrent with NumTasks
\* payments whose deliveries succeed at once; with and without Redis
SpecSummary == Init /\ [][NextSummary]_vars

\* the goroutine of payment t: every step but the arrival of the request
Run(t) ==
    \/ processPayment(t)
    \/ GetRLock(t)
    \/ GetRead(t)
    \/ GetCheck(t)
    \/ ProbeResponse(t)
    \/ UpdateLock(t)
    \/ UpdateWrite(t)
    \/ GetRLock2(t)
    \/ GetRead2(t)
    \/ PostResponse(t)
    \/ SleepDone(t)
    \/ AfterSend(t)
    \/ AfterFailover(t)
    \/ ExecIncrRequests(t)
    \/ ExecIncrAmount(t)

NextLive ==
    \/ TickAsleep
    \/ \E t \in Tasks : Step(t)

InitLive == Init /\ redisClient

\* NumTasks concurrent payments with Redis connected and a clock that is
\* observed only while some goroutine sleeps and that does not stop under a
\* sleeper, goroutines that the Go scheduler runs whenever they can step, and
\* outbound calls that return (httpClient has a 10 s timeout, line 57)
SpecLive ==
    /\ InitLive
    /\ [][NextLive]_vars
    /\ WF_vars(TickAsleep)
    /\ \A t \in Tasks : WF_vars(Run(t))

TypeOK ==
    /\ now \in StartTime..MaxTime
    /\ redisClient \in BOOLEAN
    /\ readers \subseteq Payments
    /\ writer \in Payments \cup {0}
    /\ \A t \in Payments : pc[t] \in {"idle", "rejected", "acked", "select", "read1", "check",
          "probe", "wlock", "write", "rlock2", "read2", "post", "sleep", "sent1",
          "sent2", "rec1", "rec2", "done"}

\* ---- terminal states of a payment ---------------------------------------

\* the processor whose sendToProcessor call returned true, or "none"
DeliveredTo(t) ==
    IF sendCalls[t] # <<>> /\ Last(sendCalls[t]).res = "true"
    THEN Last(sendCalls[t]).proc
    ELSE "none"

\* the pipeline of payment t ended without a delivery
Dropped(t) ==
    pc[t] = "done" /\ sendCalls[t] # <<>> /\ Last(sendCalls[t]).res = "false"

\* the value Redis holds in a hash field, an absent field counting as 0
Val(field) == IF field = <<>> THEN 0 ELSE field[1]

RECURSIVE SumAmounts(_)
SumAmounts(S) ==
    IF S = {} THEN 0
    ELSE LET t == CHOOSE x \in S : TRUE IN amount[t] + SumAmounts(S \ {t})

\* getHealthCheck returns to selectBestProcessor in this step of payment t
GetReturns(t) == pc[t] \in {"check", "read2"} /\ pc'[t] = "post"

\* the snapshot it returns
Returned(t) == IF pc[t] = "check" THEN cached[t] ELSE healthCache["default"]

\* ---- C1 -----------------------------------------------------------------

\* C1: failover exclusivity.  A payment makes at most two sendToProcessor
\* calls.  A second call exists only when the first was against "default" and
\* returned false, it is against "fallback", and while it runs or after it the
\* first call has ended with all maxRetries POSTs issued; once the first call
\* against "default" has returned false the pipeline does not go on to record
\* or to end without that second call.  A payment whose first call was
\* against "fallback" never makes a second call, whatever the first returned.
C1_FailoverExclusivity ==
    \A t \in Tasks :
        LET h == sendCalls[t] IN
        /\ Len(h) <= 2
        /\ Len(h) = 2 =>
              /\ h[1] = [proc |-> "default", res |-> "false"]
              /\ h[2].proc = "fallback"
              /\ site[t] = 2
        /\ (pc[t] = "sent1" /\ ~success[t]) => posts[t] = maxRetries
        /\ (h # <<>> /\ h[1].proc = "fallback") => Len(h) = 1
        /\ (h # <<>> /\ h[1] = [proc |-> "default", res |-> "false"]
              /\ pc[t] \in {"rec1", "rec2", "done"}) => Len(h) = 2

\* a payment failed over from "default" and ended, and another one was routed
\* to "fallback", failed there and ended after that single call
C1_Witness ==
    \E t \in Tasks, u \in Tasks :
        /\ pc[t] = "done" /\ Len(sendCalls[t]) = 2
        /\ pc[u] = "done"
        /\ sendCalls[u] = <<[proc |-> "fallback", res |-> "false"]>>

\* ---- C2 -----------------------------------------------------------------

\* C2: counting correctness with a Redis client and no failed pipeline.  A
\* payment delivered to p calls updateSummaryCounters once, with p the
\* processor whose sendToProcessor call returned true; in every state
\* totalRequests of p is the number of payments delivered to p whose first
\* increment was applied and totalAmount of p is the sum of the amounts of the
\* payments delivered to p whose pipeline has ended, so that after the
\* payments have ended the counters of p are the number and the total of the
\* payments delivered to p.
C2_CountingCorrectness ==
    (redisClient /\ ~storeFailed) =>
        /\ \A t \in Tasks :
              (DeliveredTo(t) # "none" /\ pc[t] \in {"rec1", "rec2", "done"}) =>
                  recordCalls[t] = 1 /\ processor[t] = DeliveredTo(t)
        /\ \A p \in Procs :
              /\ Val(store[p].totalRequests) =
                    Cardinality({t \in Tasks :
                        DeliveredTo(t) = p /\ pc[t] \in {"rec2", "done"}})
              /\ Val(store[p].totalAmount) =
                    SumAmounts({t \in Tasks : DeliveredTo(t) = p /\ pc[t] = "done"})

\* one payment was delivered to "default" at once and another to "fallback"
\* after a failover, and both are counted
C2_Witness ==
    /\ redisClient /\ ~storeFailed
    /\ \E t \in Tasks, u \in Tasks :
          /\ pc[t] = "done" /\ pc[u] = "done"
          /\ sendCalls[t] = <<[proc |-> "default", res |-> "true"]>>
          /\ sendCalls[u] = <<[proc |-> "default", res |-> "false"],
                              [proc |-> "fallback", res |-> "true"]>>
          /\ store["default"] = [totalRequests |-> <<1>>, totalAmount |-> <<amount[t]>>]
          /\ store["fallback"] = [totalRequests |-> <<1>>, totalAmount |-> <<amount[u]>>]

\* ---- C3 -----------------------------------------------------------------

\* C3: a dropped payment never calls updateSummaryCounters, and the step that
\* drops it changes no counter; the counters of a processor never exceed the
\* number and the total of the payments delivered to it, so a payment that
\* failed on "fallback" is in no summary.
C3_DroppedNotRecorded ==
    /\ [](\A t \in Tasks : Dropped(t) => recordCalls[t] = 0)
    /\ [](\A p \in Procs :
            /\ Val(store[p].totalRequests) <=
                  Cardinality({t \in Tasks : DeliveredTo(t) = p})
            /\ Val(store[p].totalAmount) <=
                  SumAmounts({t \in Tasks : DeliveredTo(t) = p}))
    /\ [][\A t \in Tasks : (Dropped(t)' /\ ~Dropped(t)) => store' = store]_vars

\* with a Redis client, a payment was dropped after a failover and another
\* after a single call against "fallback"; no counter was ever set
C3_Witness ==
    /\ redisClient
    /\ \E t \in Tasks, u \in Tasks :
          /\ Dropped(t) /\ Len(sendCalls[t]) = 2
          /\ Dropped(u) /\ Len(sendCalls[u]) = 1
    /\ \A p \in Procs : store[p] = [totalRequests |-> <<>>, totalAmount |-> <<>>]

\* ---- C4 -----------------------------------------------------------------

\* C4: selection policy.  Whenever getHealthCheck("default") returns a
\* snapshot, selectBestProcessor chooses "default" if the snapshot is not
\* failing and "fallback" if it is, whatever its minResponseTime and whatever
\* the cache holds for "fallback"; the first sendToProcessor call goes to the
\* chosen processor.
C4_SelectionPolicy ==
    [][\A t \in Tasks : GetReturns(t) =>
          /\ processor'[t] = "default" <=> ~Returned(t).Failing
          /\ processor'[t] = "fallback" <=> Returned(t).Failing
          /\ sendCalls'[t] = <<[proc |-> processor'[t], res |-> "pending"]>>]_vars

\* "default" was chosen on a snapshot slower than the entry of "fallback",
\* and "fallback" was chosen for another payment
C4_Witness ==
    \E t \in Tasks, u \in Tasks :
        /\ pc[t] = "post" /\ site[t] = 1 /\ processor[t] = "default"
        /\ ~healthCache["default"].Failing
        /\ healthCache["default"].MinResponseTime >
              healthCache["fallback"].MinResponseTime
        /\ sendCalls[u] # <<>> /\ sendCalls[u][1].proc = "fallback"

\* ---- C5 -----------------------------------------------------------------

\* C5 as claimed: every snapshot getHealthCheck returns is at most
\* StaleWindow seconds old at the moment of the return.
C5_FreshAtReturn ==
    [][\A t \in Tasks : GetReturns(t) =>
          now - Returned(t).LastCheckedAt <= StaleWindow]_vars

\* C5 as amended: a snapshot returned without a probe is at most StaleWindow
\* seconds old at the return; every write of updateHealthCheck stamps the
\* entry with the time of the write; after a probe that ended in a transport
\* failure or a decoded body, getHealthCheck returns the entry that probe
\* wrote or one written later.  (After HTTP 429 or an undecodable body it
\* returns whatever the cache holds, however old.)
C5_FreshOrProbed ==
    [][\A t \in Tasks :
          /\ (pc[t] = "write" /\ pc'[t] # "write") =>
                /\ healthCache'["default"].LastCheckedAt = now
                /\ wroteAt'[t] = now
          /\ GetReturns(t) =>
                /\ pc[t] = "check" =>
                      /\ probes[t] = 0
                      /\ now - Returned(t).LastCheckedAt <= StaleWindow
                /\ (pc[t] = "read2" /\ probeRes[t] \in {"err", "ok"}) =>
                      /\ wroteAt[t] >= StartTime
                      /\ Returned(t).LastCheckedAt >= wroteAt[t]]_vars

\* getHealthCheck is about to return an entry written after the one its own
\* probe wrote
C5_Witness ==
    \E t \in Tasks :
        /\ pc[t] = "read2" /\ probeRes[t] \in {"err", "ok"}
        /\ wroteAt[t] >= StartTime
        /\ healthCache["default"].LastCheckedAt > wroteAt[t]

\* ---- C6 -----------------------------------------------------------------

\* C6: staleness-driven refresh.  When getHealthCheck tests the entry it
\* read: a nil entry or one whose lastCheckedAt is more than StaleWindow
\* seconds old (the zero timestamp included) makes it issue one probe; an
\* entry at most StaleWindow seconds old is returned with no probe.  Probes
\* are issued nowhere else, so getHealthCheck has issued exactly one probe
\* when it returns after a refresh and none otherwise.
C6_StalenessDrivenRefresh ==
    [][\A t \in Tasks :
          /\ (pc[t] = "check" /\ pc'[t] # "check") =>
                IF cached[t] = NilCache
                      \/ now - cached[t].LastCheckedAt > StaleWindow
                THEN pc'[t] = "probe" /\ probes'[t] = probes[t] + 1
                ELSE GetReturns(t) /\ probes'[t] = probes[t]
          /\ probes'[t] # probes[t] => pc[t] = "check"
          /\ GetReturns(t) =>
                probes'[t] = IF pc[t] = "read2" THEN 1 ELSE 0]_vars

\* a probe is in flight for an entry that was written by an earlier probe
\* and has gone stale since
C6_Witness ==
    \E t \in Tasks, u \in Tasks :
        /\ pc[u] = "probe" /\ probes[u] = 1
        /\ cached[u].LastCheckedAt >= StartTime
        /\ now - cached[u].LastCheckedAt > StaleWindow
        /\ probes[t] = 1 /\ pc[t] = "done"

\* ---- C7 -----------------------------------------------------------------

\* C7 as claimed: a transport failure of the probe stores
\* {failing: true, minResponseTime: 1000, lastCheckedAt: now}, and every
\* select call made while the cache holds that entry and tested within
\* StaleWindow seconds of it returns "fallback" without a probe, whatever the
\* probes in flight do afterwards.
C7_ErrEntrySticks ==
    [][\A t \in Callers :
          /\ (pc[t] = "write" /\ probeRes[t] = "err" /\ pc'[t] # "write") =>
                healthCache'["default"] = HealthCheckCache(TRUE, ErrMRT, now)
          /\ (pc[t] = "check" /\ pc'[t] # "check"
                /\ errSeen[t] # 0 /\ now - errSeen[t] <= StaleWindow) =>
                /\ pc'[t] = "post"
                /\ processor'[t] = "fallback"
                /\ probes'[t] = probes[t]]_vars

\* C7 as amended: a transport failure of the probe stores
\* {failing: true, minResponseTime: 1000, lastCheckedAt: now}; a select call
\* that reads that entry and tests it within StaleWindow seconds of its
\* lastCheckedAt returns "fallback" without a probe; a probe that was in
\* flight and is decoded afterwards overwrites the entry with what it
\* decoded, and later select calls follow the overwriting entry.
C7_ErrEntryRoutes ==
    [][\A t \in Callers :
          /\ (pc[t] = "write" /\ probeRes[t] = "err" /\ pc'[t] # "write") =>
                healthCache'["default"] = HealthCheckCache(TRUE, ErrMRT, now)
          /\ (pc[t] = "write" /\ probeRes[t] = "ok" /\ pc'[t] # "write") =>
                healthCache'["default"] =
                    HealthCheckCache(healthResp[t].Failing,
                                     healthResp[t].MinResponseTime, now)
          /\ (pc[t] = "check" /\ pc'[t] # "check"
                /\ cached[t].Failing /\ cached[t].MinResponseTime = ErrMRT
                /\ now - cached[t].LastCheckedAt <= StaleWindow) =>
                /\ pc'[t] = "post"
                /\ processor'[t] = "fallback"
                /\ probes'[t] = probes[t]]_vars

\* the cache holds a transport-failure entry, a payment was routed to
\* "fallback" on it without a probe, and another payment's probe is still in
\* flight
C7_Witness ==
    /\ healthCache["default"].Failing
    /\ healthCache["default"].MinResponseTime = ErrMRT
    /\ now - healthCache["default"].LastCheckedAt <= StaleWindow
    /\ \E t \in Callers, u \in Callers :
          /\ pc[t] = "post" /\ processor[t] = "fallback" /\ probes[t] = 0
          /\ pc[u] = "probe"

\* ---- C8 -----------------------------------------------------------------

\* C8: a probe answered with HTTP 429 or an undecodable body writes nothing:
\* the step that receives the answer leaves the whole cache as it is and
\* updateHealthCheck returns without taking the write lock; the cache changes
\* only in the write of a probe that ended in a transport failure or a
\* decoded body, and the entry of "fallback" never changes with it.
C8_NoWriteOn429 ==
    /\ [](\A t \in Tasks : probeRes[t] \in {"429", "undecodable"} =>
            /\ pc[t] \in {"rlock2", "read2"}
            /\ wroteAt[t] = ZeroTime
            /\ writer # t)
    /\ [][\A t \in Tasks :
            (pc[t] = "probe" /\ probeRes'[t] \in {"429", "undecodable"}) =>
                healthCache' = healthCache /\ pc'[t] = "rlock2"]_vars
    /\ [][healthCache' # healthCache =>
            \E t \in Tasks :
                /\ pc[t] = "write" /\ pc'[t] = "rlock2"
                /\ probeRes[t] \in {"err", "ok"}
                /\ healthCache'["fallback"] = healthCache["fallback"]]_vars

\* one probe was answered 429 and another with an undecodable body, and the
\* cache still holds the never-checked entry
C8_Witness ==
    /\ healthCache["default"] = HealthCheckCache(FALSE, DefaultInitMRT, ZeroTime)
    /\ \E t \in Tasks, u \in Tasks :
          /\ probeRes[t] = "429" /\ pc[t] = "read2"
          /\ probeRes[u] = "undecodable" /\ pc[u] = "read2"

\* ---- C9 -----------------------------------------------------------------

\* C9: retry bound.  A sendToProcessor call issues at most maxRetries POSTs;
\* every POST but the running one has failed; the call returns true on its
\* first 2xx answer, with no POST after it, and returns false only after
\* maxRetries POSTs that each ended in a transport error or a non-2xx status.
C9_RetryBound ==
    \A t \in Tasks :
        /\ posts[t] <= maxRetries
        /\ pc[t] = "post" => callLog[t].fails = posts[t] - 1
        /\ pc[t] = "sleep" => callLog[t].fails = posts[t]
        /\ pc[t] \in {"post", "sleep"} => posts[t] = attempt[t] + 1
        /\ pc[t] \in {"sent1", "sent2"} =>
              /\ callLog[t].kinds \subseteq {"non2xx", "err"}
              /\ IF success[t]
                 THEN /\ posts[t] \in 1..maxRetries
                      /\ callLog[t].fails = posts[t] - 1
                 ELSE /\ posts[t] = maxRetries
                      /\ callLog[t].fails = maxRetries
                      /\ callLog[t].kinds # {}

\* a call returned false after three attempts that failed in both ways, and
\* another returned true on its second attempt
C9_Witness ==
    \E t \in Tasks, u \in Tasks :
        /\ pc[t] \in {"sent1", "sent2"} /\ ~success[t]
        /\ posts[t] = 3 /\ callLog[t].kinds = {"non2xx", "err"}
        /\ pc[u] \in {"sent1", "sent2"} /\ success[u] /\ posts[u] = 2

\* ---- C10 ----------------------------------------------------------------

\* C10: backoff schedule.  The waits of a call are 1 s after its first failed
\* attempt and 2 s after its second, whatever the kind of the failures, and
\* none after the third.  A sleep starts only at a failed attempt i < 2 and
\* ends no earlier than 2^i seconds later, with the next POST; the first POST
\* of a call, a 2xx answer and the third failure are followed by no sleep.
C10_BackoffSchedule ==
    /\ [](\A t \in Tasks :
            /\ pc[t] \in {"post", "sleep", "sent1", "sent2"} =>
                  callLog[t].waits =
                      SubSeq(<<1, 2>>, 1,
                             IF callLog[t].fails < 2 THEN callLog[t].fails ELSE 2)
            /\ pc[t] = "sleep" => wakeAt[t] <= now + 2 ^ attempt[t])
    /\ [][\A t \in Tasks :
            /\ (pc'[t] = "sleep" /\ pc[t] # "sleep") =>
                  /\ pc[t] = "post" /\ attempt[t] < 2
                  /\ callLog'[t].fails = callLog[t].fails + 1
                  /\ wakeAt'[t] = now + 2 ^ attempt[t]
            /\ (pc[t] = "sleep" /\ pc'[t] # "sleep") =>
                  /\ now >= wakeAt[t]
                  /\ pc'[t] = "post" /\ attempt'[t] = attempt[t] + 1
            /\ (pc[t] = "sleep" /\ pc'[t] = "sleep") => wakeAt'[t] = wakeAt[t]
            /\ (pc[t] = "post" /\ pc'[t] # "post"
                  /\ (callLog'[t].fails = callLog[t].fails \/ attempt[t] = 2)) =>
                  pc'[t] \in {"sent1", "sent2"}]_vars

\* a call that failed once in each way sleeps its second wait of 2 s
C10_Witness ==
    \E t \in Tasks :
        /\ pc[t] = "sleep" /\ attempt[t] = 1
        /\ wakeAt[t] = now + 2
        /\ callLog[t].kinds = {"non2xx", "err"}
        /\ callLog[t].waits = <<1, 2>>

\* ---- C11 ----------------------------------------------------------------

\* the payments whose record for processor p was called
RecordedFor(p) == {t \in Tasks : recordCalls[t] = 1 /\ processor[t] = p}

\* the pair counts a set of recorded payments: as many requests as payments,
\* and their amounts
WholePair(p, s) ==
    \E S \in SUBSET RecordedFor(p) :
        s = ProcessorSummary(Cardinality(S), SumAmounts(S))

\* C11: record is one atomic step with respect to readSummary.  Absent Redis
\* failures, every pair getProcessorSummary returns counts a set of recorded
\* payments together with exactly their amounts: no request without its
\* amount, no amount without its request.
C11_AtomicRecord ==
    (redisClient /\ ~storeFailed) =>
        \A p \in Procs : summary[p] # ProcessorSummary(-1, -1) => WholePair(p, summary[p])

\* ---- C12 ----------------------------------------------------------------

\* the pipeline of payment t has ended
Terminal(t) == pc[t] = "done"

\* payment t can make no step now
Blocked(t) == ~ENABLED Run(t)

\* what keeps payment t from stepping is the end of its own time.Sleep, or
\* healthCacheMux held by a goroutine that is at its map read or map write
WaitsOnlyForMutexOrSleep(t) ==
    \/ pc[t] = "sleep" /\ now < wakeAt[t]
    \/ /\ pc[t] \in {"select", "rlock2"}
       /\ writer # 0 /\ pc[writer] = "write"
    \/ /\ pc[t] = "wlock"
       /\ \/ writer # 0 /\ pc[writer] = "write"
          \/ \E u \in readers : pc[u] \in {"read1", "read2"}

\* C12: every dispatched payment task eventually reaches exactly one terminal
\* state, delivered(p) or dropped, and stays there.  On the way it is never
\* made to wait for another payment's pipeline: when it cannot step it sleeps
\* its own backoff or waits for healthCacheMux, held for one map access.  It
\* issues at most one health probe, at most two sendToProcessor calls against
\* different processors and at most maxRetries POSTs in each.
C12_Terminates ==
    /\ \A t \in Tasks : (pc[t] = "select") ~> Terminal(t)
    /\ [](\A t \in Tasks :
            /\ Terminal(t) => (DeliveredTo(t) \in Procs) # Dropped(t)
            /\ (pc[t] \notin {"idle", "rejected", "acked", "done"} /\ Blocked(t))
                  => WaitsOnlyForMutexOrSleep(t)
            /\ probes[t] <= 1
            /\ Len(sendCalls[t]) <= 2
            /\ Len(sendCalls[t]) = 2 => sendCalls[t][1].proc # sendCalls[t][2].proc
            /\ posts[t] <= maxRetries)
    /\ [][\A t \in Tasks : Terminal(t) =>
            /\ Terminal(t)'
            /\ sendCalls'[t] = sendCalls[t]]_vars

\* one payment was dropped after a probe, two sendToProcessor calls and a
\* sleep that ended past the horizon, and the other was delivered
C12_Witness ==
    \E t, u \in Tasks :
        /\ Dropped(t) /\ probes[t] = 1 /\ Len(sendCalls[t]) = 2
        /\ Terminal(u) /\ DeliveredTo(u) \in Procs
        /\ now >= StartTime + 2 * (Backoff(0) + Backoff(1))

\* ---- C13 ----------------------------------------------------------------

\* the pipeline of payment t has started: selectBestProcessor was called
Started(t) == pc[t] \notin {"idle", "rejected", "acked"}

\* C13: acknowledge first, process after.  In every state where the pipeline
\* of a payment has started, the 200 "payment received" answer was already
\* written, and it stays the same to the end, delivered or dropped; the step
\* that starts the pipeline is taken with the answer written and issues no
\* probe and no POST itself; a request answered 400 never starts a pipeline.
C13_AckBeforePipeline ==
    /\ [](\A t \in Tasks :
            /\ Started(t) => response[t] = Received
            /\ ~Started(t) => probes[t] = 0 /\ sendCalls[t] = <<>> /\ recordCalls[t] = 0
            /\ response[t] = BadRequest <=> pc[t] = "rejected")
    /\ [][\A t \in Tasks :
            /\ (~Started(t) /\ Started(t)') =>
                  /\ response[t] = Received
                  /\ pc'[t] = "select"
                  /\ probes'[t] = 0 /\ sendCalls'[t] = <<>>
            /\ response[t] # NoResponse => response'[t] = response[t]
            /\ pc[t] = "rejected" => pc'[t] = "rejected"]_vars

\* one payment ended delivered and another dropped, on the same answer
C13_Witness ==
    \E t, u \in Tasks :
        /\ Terminal(t) /\ DeliveredTo(t) \in Procs
        /\ Dropped(u)
        /\ response[t] = Received /\ response[u] = Received

\* ---- C14 ----------------------------------------------------------------

\* C14: in no-store mode the unavailability of Redis is logged once, at
\* startup: updateSummaryCounters and getProcessorSummary write no log entry
\* of their own, so the log holds the one startup entry in every state,
\* whatever the number of payments delivered and summaries read.
C14_LoggedOnce ==
    ~redisClient => logLines = [unavailable |-> 1, inMemory |-> 0]

\* ---- C15 ----------------------------------------------------------------

\* the hash summary:<processor> before any command
EmptyHash == [totalRequests |-> <<>>, totalAmount |-> <<>>]

FallbackInitEntry == HealthCheckCache(FALSE, FallbackInitMRT, ZeroTime)

\* C16: only the health of "default" is consulted.  The entry of "fallback"
\* keeps its initial value in every state; every step that changes the cache, and so every probe that
\* was answered, changes the entry of "default" alone; and every snapshot a
\* payment holds is one the entry of "default" held.
C16_OnlyPrimaryConsulted ==
    /\ [](/\ healthCache["fallback"] = FallbackInitEntry
          /\ \A t \in Tasks : cached[t] # NilCache =>
                cached[t].MinResponseTime # FallbackInitMRT)
    /\ [][/\ healthCache'["fallback"] = healthCache["fallback"]
          /\ \A t \in Tasks :
                (pc[t] = "read1" /\ pc'[t] = "check") => cached'[t] = healthCache["default"]]_vars

\* a payment was delivered to "fallback" after the entry of "default" had been
\* rewritten by a probe, the entry of "fallback" still never checked
C16_Witness ==
    \E t \in Tasks :
        /\ Terminal(t) /\ DeliveredTo(t) = "fallback"
        /\ healthCache["default"].LastCheckedAt >= StartTime
        /\ healthCache["fallback"].LastCheckedAt = ZeroTime

\* ---- C17 ----------------------------------------------------------------

\* the goroutines between healthCacheMux.Lock() and Unlock()
Writing == {t \in Tasks : pc[t] = "write"}

\* the goroutines between healthCacheMux.RLock() and RUnlock()
Reading == {t \in Tasks : pc[t] \in {"read1", "read2"}}

\* the entry initHealthCache stores for "default" (lines 123-127)
DefaultInitEntry == HealthCheckCache(FALSE, DefaultInitMRT, ZeroTime)

\* c is a triple that one call of updateHealthCheck can store
OneWrite(c) ==
    /\ c.LastCheckedAt >= StartTime
    /\ \/ c.Failing /\ c.MinResponseTime = ErrMRT
       \/ c.MinResponseTime \in RespTimes

\* C17: lock discipline of the health cache.  At most one goroutine is writing
\* and none is reading while one writes; the lock's state is that of the
\* goroutines inside it.  The cache changes only by the goroutine holding the
\* write lock, which stores a whole triple; a read copies the whole entry; so
\* every snapshot held is the initial entry or the triple of one write.
C17_LockDiscipline ==
    /\ [](/\ Cardinality(Writing) <= 1
          /\ Writing # {} => Reading = {}
          /\ Writing = (IF writer = 0 THEN {} ELSE {writer})
          /\ Reading = readers
          /\ \A t \in Tasks : cached[t] # NilCache =>
                cached[t] = DefaultInitEntry \/ OneWrite(cached[t]))
    /\ [][/\ healthCache' # healthCache =>
                \E t \in Writing :
                   /\ writer = t
                   /\ healthCache'["default"] =
                         ProbedEntry(probeRes[t], healthResp[t], now)
          /\ \A t \in Tasks :
                (pc[t] = "read1" /\ pc'[t] # "read1") => cached'[t] = healthCache["default"]
          /\ \A t \in Tasks :
                (pc[t] = "read2" /\ pc'[t] # "read2") =>
                   processor'[t] = selectBestProcessor(healthCache["default"])]_vars

\* two goroutines read the cache at once, one of them the entry that its own
\* probe wrote
C17_Witness ==
    \E t, u \in Tasks :
        /\ pc[t] = "read1" /\ pc[u] = "read2"
        /\ readers = {t, u}
        /\ OneWrite(healthCache["default"])

\* ---- C18 ----------------------------------------------------------------

\* the payments whose goroutine was started
Dispatched == {t \in Tasks : Started(t)}

RECURSIVE TotalProbes(_)
\* the probes issued for the payments of S
TotalProbes(S) ==
    IF S = {} THEN 0
    ELSE LET t == CHOOSE x \in S : TRUE IN probes[t] + TotalProbes(S \ {t})

\* C18: probe duplication is bounded by the number of callers and there is no
\* single-flight.  Each payment's one getHealthCheck call issues at most one
\* probe, so the probes issued never outnumber the payments dispatched; a
\* probe is issued whenever the snapshot read is stale, whether or not other
\* probes are in flight.
C18_ProbesBoundedByCallers ==
    /\ [](/\ \A t \in Tasks : probes[t] <= 1 /\ (probes[t] = 1 => t \in Dispatched)
          /\ TotalProbes(Tasks) <= Cardinality(Dispatched))
    /\ [][\A t \in Tasks :
            /\ probes'[t] \in {probes[t], probes[t] + 1}
            /\ (pc[t] = "check" /\ pc'[t] # "check") =>
                  (probes'[t] = probes[t] + 1 <=> Stale(cached[t]))
            /\ pc[t] # "check" => probes'[t] = probes[t]]_vars

\* every payment read the never-checked entry before any wrote, and the
\* probes of all of them are in flight
C18_Witness ==
    /\ \A t \in Tasks : pc[t] = "probe" /\ cached[t] = DefaultInitEntry
    /\ TotalProbes(Tasks) = NumTasks
    /\ healthCache["default"] = DefaultInitEntry

\* ---- C19 ----------------------------------------------------------------

\* C19: the LastCheckedAt of a cache entry never decreases.  Every step that
\* changes an entry is taken by the holder of the write lock and stamps the
\* entry with the time of that step, no step moves a timestamp back, and no
\* entry is stamped later than the clock.
C19_LastCheckedAtMonotone ==
    /\ [][\A p \in Procs :
            /\ healthCache'[p].LastCheckedAt >= healthCache[p].LastCheckedAt
            /\ healthCache'[p] # healthCache[p] =>
                  /\ writer # 0 /\ pc[writer] = "write"
                  /\ healthCache'[p].LastCheckedAt = now]_vars
    /\ [](\A p \in Procs : healthCache[p].LastCheckedAt <= now)

\* a goroutine holds the write lock to store the answer to its probe over an
\* entry that another probe, issued for the same stale entry, wrote earlier
C19_Witness ==
    \E t, u \in Tasks :
        /\ pc[t] = "write" /\ pc[u] = "rlock2"
        /\ wroteAt[u] >= StartTime
        /\ healthCache["default"].LastCheckedAt = wroteAt[u]
        /\ now > wroteAt[u]
        /\ cached[t] = DefaultInitEntry /\ cached[u] = DefaultInitEntry

\* ---- C20 ----------------------------------------------------------------

\* payment t waits for the answer to its probe, for the answer to a POST or
\* to Redis, or for the end of a time.Sleep
Waiting(t) == pc[t] \in {"probe", "post", "sleep", "rec1", "rec2"}

\* payment t holds healthCacheMux, for reading or for writing
HoldsLock(t) == t \in readers \/ writer = t

\* C20: no goroutine holds healthCacheMux while it waits for a probe, for a
\* delivery or in backoff.  The lock is held only at the map read and at the
\* map write, each left by the holder's next step, so that whenever no
\* goroutine is at its map write, whatever the others wait for, a payment
\* that wants to read the cache can take the read lock.
C20_NoLockWhileWaiting ==
    /\ \A t \in Tasks :
          /\ Waiting(t) => ~HoldsLock(t)
          /\ HoldsLock(t) => pc[t] \in {"read1", "read2", "write"}
          /\ pc[t] \in {"read1", "read2"} => ENABLED (GetRead(t) \/ GetRead2(t))
          /\ pc[t] = "write" => ENABLED UpdateWrite(t)
    /\ (\A u \in Tasks : pc[u] # "write") =>
          \A t \in Tasks :
             /\ pc[t] = "select" => ENABLED GetRLock(t)
             /\ pc[t] = "rlock2" => ENABLED GetRLock2(t)

\* one payment sleeps in backoff, holding no lock, while the other reads the
\* cache
C20_Witness ==
    \E t, u \in Tasks :
        /\ pc[t] = "sleep" /\ now < wakeAt[t]
        /\ pc[u] = "read1"
        /\ readers = {u} /\ writer = 0

====
